---- MODULE Spec2Model ----
(***************************************************************************)
(* Copy-on-write pointer (copy_on_write_ptr / cow_ptr) and its ownership   *)
(* flags (thread_unsafe_flag, mutex_flag / cow_ownership_flag,             *)
(* manually_ordered_atomics_flag).                                         *)
(*                                                                         *)
(* Threads are interleaved at the granularity of one access to shared      *)
(* state: one atomic operation, one mutex operation, one access to a       *)
(* shared_ptr or to the payload block.  Atomic operations of one flag are  *)
(* totally ordered; the acquire/release orders the source asks for make    *)
(* everything done before a store of Owner visible to whoever loads it, so *)
(* the payload handle is read from the one current state.                  *)
(***************************************************************************)
EXTENDS Integers, FiniteSets, Sequences, TLC

\* ------------------------------------------------------------------ bounds
NumThreads == 2
MaxInst == 3
MaxVal == 2

Threads == 1..NumThreads
Inst == 1..MaxInst
Values == 0..MaxVal

\* ---------------------------------------------------------- flag variants
UnsafeFlag == "thread_unsafe_flag"
MutexFlag == "mutex_flag"
AtomicFlag == "manually_ordered_atomics_flag"
Variants == {UnsafeFlag, MutexFlag, AtomicFlag}
\* The cow_ptr that keeps a std::once_flag m_ownership_flag in place of a flag object.
OnceFlag == "std::once_flag"

\* enum OwnershipStatus : OwnershipStatusType { NotOwner, AcquiringOwnership, Owner }
NotOwner == 0
AcquiringOwnership == 1
Owner == 2
OwnershipStatus == {NotOwner, AcquiringOwnership, Owner}

\* std::once_flag: no call_once has run its function to the end, one is running it,
\* one has returned from it.
OnceIdle == 0
OnceRunning == 1
OnceDone == 2

\* An empty std::shared_ptr (block numbers start at 1).
NULL == 0
\* An unlocked std::mutex (thread numbers start at 1).
NoThread == 0
\* What is left where a freed block was.
Freed == -1

VARIABLES
    variant,              \* the OwnershipFlag template argument of the program
    ninst,                \* number of objects constructed so far
    alive,                \* alive[p]: p is constructed and not yet destroyed
    moved,                \* moved[p]: p has been the source of a move-construction
    origin,               \* how p was constructed: kind, source object, value of the
                          \* resource, initially_owned given to its flag
    m_payload,            \* m_payload[p]: the block std::shared_ptr<T> m_payload holds
    m_owned,              \* bool m_owned of thread_unsafe_flag and mutex_flag
    m_ownership_mutex,    \* std::mutex m_ownership_mutex: the thread holding it
    m_ownership_status,   \* std::atomic<OwnershipStatusType> m_ownership_status
    m_ownership_flag,     \* std::once_flag m_ownership_flag of the once_flag cow_ptr
    heap,                 \* heap[b]: value and use_count of block b (b = 1, 2, ...)
    pc,                   \* pc[t]: where thread t is in its current call
    op,                   \* op[t]: the call thread t is in
    tgt,                  \* tgt[t]: the object (this) of the call
    val,                  \* val[t]: the value argument of write
    result,               \* result[t]: the value seen through what read returned
    fresh,                \* fresh[t]: the result of std::make_shared not yet assigned
    invoked,              \* invoked[p]: times the acquisition routine of p's flag ran
    owned,                \* owned[t]: the argument of set_ownership
    current_ownership     \* current_ownership[t]: the local of set_ownership_status

vars == <<variant, ninst, alive, moved, origin, m_payload, m_owned, m_ownership_mutex,
          m_ownership_status, m_ownership_flag, heap, pc, op, tgt, val, result, fresh,
          invoked, owned, current_ownership>>

flagVars == <<m_owned, m_ownership_mutex, m_ownership_status, m_ownership_flag>>
objVars == <<ninst, alive, moved, origin>>
callVars == <<op, tgt, val, result>>
setVars == <<owned, current_ownership>>

\* ------------------------------------------------------------- shared_ptr
\* Fault: a handle copied without counting the new owner.
SharedPtrAlias(h, b) == h

\* Copying a std::shared_ptr: one more owner of the block.
SharedPtrCopy(h, b) == [h EXCEPT ![b].use = @ + 1]

\* Fault: a handle dropped without giving up its share of the block.
SharedPtrLeak(h, b) == h

\* Dropping a std::shared_ptr: the block is freed with its last owner.
SharedPtrRelease(h, b) ==
    IF h[b].use = 1 THEN [h EXCEPT ![b] = [val |-> Freed, use |-> 0]]
    ELSE [h EXCEPT ![b].use = @ - 1]

\* The allocator hands out the lowest block that is not in use: the memory of a freed
\* block may be given out again.
NewBlockId(h) ==
    IF \E b \in DOMAIN h : h[b].use = 0
    THEN CHOOSE b \in DOMAIN h : h[b].use = 0 /\ \A c \in DOMAIN h : h[c].use = 0 => b <= c
    ELSE Len(h) + 1

\* std::shared_ptr<T>{ptr} and std::make_shared<T>(v): a new block owned once.
NewBlock(h, v) ==
    LET b == NewBlockId(h)
    IN IF b \in DOMAIN h THEN [h EXCEPT ![b] = [val |-> v, use |-> 1]]
       ELSE Append(h, [val |-> v, use |-> 1])

LiveBlocks == {b \in DOMAIN heap : heap[b].use > 0}

\* ------------------------------------------------------------------ flags
to_ownership_status(is_owned) == IF is_owned THEN Owner ELSE NotOwner

\* Fault: a constructor that leaves out acquire_ownership().
once_never_acquired(acquire_ownership) == OnceIdle

\* m_ownership_flag{} followed, in the constructors from a resource and from an rvalue,
\* by acquire_ownership(): std::call_once(m_ownership_flag, [](){}), which cannot fail
\* and which no other thread can observe half-way.
once_constructed(acquire_ownership) == IF acquire_ownership THEN OnceDone ELSE OnceIdle

\* Fault: one flag for all the pointers, as a static member would be.
FlagConstructStatic(p, initially_owned) ==
    /\ m_owned' = IF variant = AtomicFlag THEN m_owned
                  ELSE [q \in Inst |-> initially_owned]
    /\ m_ownership_status' =
          IF variant = AtomicFlag
          THEN [q \in Inst |-> to_ownership_status(initially_owned)]
          ELSE m_ownership_status
    /\ UNCHANGED <<m_ownership_mutex, m_ownership_flag>>

\* The constructor flag(bool initially_owned) of the variant in use.
FlagConstruct(p, initially_owned) ==
    /\ m_owned' = IF variant \in {UnsafeFlag, MutexFlag}
                  THEN [m_owned EXCEPT ![p] = initially_owned] ELSE m_owned
    /\ m_ownership_status' =
          IF variant = AtomicFlag
          THEN [m_ownership_status EXCEPT ![p] = to_ownership_status(initially_owned)]
          ELSE m_ownership_status
    /\ m_ownership_flag' =
          IF variant = OnceFlag
          THEN [m_ownership_flag EXCEPT ![p] = once_constructed(initially_owned)]
          ELSE m_ownership_flag
    /\ UNCHANGED m_ownership_mutex

\* What the flag of p says now.
IsOwner(p) ==
    CASE variant = AtomicFlag -> m_ownership_status[p] = Owner
      [] variant = OnceFlag -> m_ownership_flag[p] = OnceDone
      [] OTHER -> m_owned[p]

\* First step of acquire_ownership_once in the variant in use.
Entry ==
    CASE variant = AtomicFlag -> "cas"
      [] variant = MutexFlag -> "lock"
      [] variant = UnsafeFlag -> "test"
      [] variant = OnceFlag -> "call_once"

\* Fault: acquire_ownership_once returns without marking the flag after the routine.
AfterClosureNoFlag == "ret"

\* Where acquire_ownership_once goes on when the acquisition routine returned.
AfterClosure ==
    CASE variant = AtomicFlag -> "store"
      [] variant = OnceFlag -> "once_done"
      [] OTHER -> "setowned"

\* No thread is inside a call on p.
Quiet(p) == \A t \in Threads : pc[t] \in {"idle", "done"} \/ tgt[t] # p

\* -------------------------------------------------------------- the pointer
\* const T & read() const { return *m_payload; }
read(p) == heap[m_payload[p]].val

NoOrigin == [kind |-> "none", src |-> 0, val |-> 0, owned |-> FALSE]

\* The initially_owned argument each constructor of the pointer gives its flag:
\* m_ownership{true} from a raw pointer and on move, m_ownership{false} on copy.
\* Fault: a pointer constructed from a resource whose flag starts as not owner.
ResourceNotOwned == FALSE
\* Fault: a copy whose flag starts as owner, as if the source's flag were copied.
CopyOwnedLikeSource == TRUE
\* Fault: a move-constructed pointer whose flag starts as not owner.
MoveNotOwned == FALSE
ResourceOwned == TRUE
MoveOwned == TRUE
CopyOwned == FALSE

\* copy_on_write_ptr(T * ptr) : m_payload{ptr}, m_ownership{true}
ConstructFromResource(t, v) ==
    /\ pc[t] = "idle"
    /\ ninst < MaxInst
    /\ LET p == ninst + 1
           b == NewBlockId(heap)
       IN /\ ninst' = p
          /\ alive' = [alive EXCEPT ![p] = TRUE]
          /\ heap' = NewBlock(heap, v)
          /\ m_payload' = [m_payload EXCEPT ![p] = b]
          /\ FlagConstruct(p, ResourceOwned)
          /\ origin' = [origin EXCEPT ![p] = [kind |-> "resource", src |-> p, val |-> v,
                                             owned |-> ResourceOwned]]
    /\ UNCHANGED <<variant, setVars, moved, pc, callVars, fresh, invoked>>

\* copy_on_write_ptr(const copy_on_write_ptr & cptr) : m_payload{cptr.m_payload}, m_ownership{false}
CopyConstruct(t, src) ==
    /\ pc[t] = "idle"
    /\ ninst < MaxInst
    /\ alive[src] /\ ~moved[src]
    /\ LET p == ninst + 1
           b == m_payload[src]
       IN /\ ninst' = p
          /\ alive' = [alive EXCEPT ![p] = TRUE]
          /\ heap' = SharedPtrCopy(heap, b)
          /\ m_payload' = [m_payload EXCEPT ![p] = b]
          /\ FlagConstruct(p, CopyOwned)
          /\ origin' = [origin EXCEPT ![p] = [kind |-> "copy", src |-> src, val |-> 0,
                                             owned |-> CopyOwned]]
    /\ UNCHANGED <<variant, setVars, moved, pc, callVars, fresh, invoked>>

\* copy_on_write_ptr(copy_on_write_ptr && cptr) : m_payload{cptr.m_payload}, m_ownership{true}
\* cptr is a named reference, hence an lvalue: its m_payload is copied, not moved from.
MoveConstruct(t, src) ==
    /\ pc[t] = "idle"
    /\ ninst < MaxInst
    /\ alive[src] /\ ~moved[src] /\ Quiet(src)
    /\ LET p == ninst + 1
           b == m_payload[src]
       IN /\ ninst' = p
          /\ alive' = [alive EXCEPT ![p] = TRUE]
          /\ moved' = [moved EXCEPT ![src] = TRUE]
          /\ heap' = SharedPtrCopy(heap, b)
          /\ m_payload' = [m_payload EXCEPT ![p] = b]
          /\ FlagConstruct(p, MoveOwned)
          /\ origin' = [origin EXCEPT ![p] = [kind |-> "move", src |-> src, val |-> 0,
                                             owned |-> MoveOwned]]
    /\ UNCHANGED <<variant, setVars, pc, callVars, fresh, invoked>>

\* ~copy_on_write_ptr() = default: the members are destroyed, m_payload drops its block.
Destroy(t, p) ==
    /\ pc[t] = "idle"
    /\ alive[p] /\ Quiet(p)
    /\ alive' = [alive EXCEPT ![p] = FALSE]
    /\ heap' = SharedPtrRelease(heap, m_payload[p])
    /\ m_payload' = [m_payload EXCEPT ![p] = NULL]
    /\ UNCHANGED <<variant, setVars, ninst, moved, origin, flagVars, pc, callVars, fresh,
                   invoked>>

\* A thread calls write(value) on p: copy_if_not_owner() is entered.
CallWrite(t, p, v) ==
    /\ pc[t] = "idle"
    /\ alive[p] /\ ~moved[p] /\ origin[p].kind # "flag"
    /\ pc' = [pc EXCEPT ![t] = Entry]
    /\ op' = [op EXCEPT ![t] = "write"]
    /\ tgt' = [tgt EXCEPT ![t] = p]
    /\ val' = [val EXCEPT ![t] = v]
    /\ UNCHANGED <<variant, setVars, result, objVars, m_payload, flagVars, heap, fresh,
                   invoked>>

\* Fault: a read that waits until no call is in progress on p.
ReadWhenQuiet(t, p) ==
    /\ pc[t] = "idle" /\ Quiet(p)
    /\ alive[p] /\ ~moved[p] /\ origin[p].kind # "flag"
    /\ pc' = [pc EXCEPT ![t] = "done"]
    /\ op' = [op EXCEPT ![t] = "read"]
    /\ tgt' = [tgt EXCEPT ![t] = p]
    /\ result' = [result EXCEPT ![t] = read(p)]
    /\ UNCHANGED <<variant, setVars, objVars, m_payload, flagVars, heap, val, fresh,
                   invoked>>

\* A thread calls read() on p and looks at what the returned reference designates:
\* return *m_payload; no flag is consulted, nothing is locked and nothing is allocated.
Read(t, p) ==
    /\ pc[t] = "idle"
    /\ alive[p] /\ ~moved[p] /\ origin[p].kind # "flag"
    /\ pc' = [pc EXCEPT ![t] = "done"]
    /\ op' = [op EXCEPT ![t] = "read"]
    /\ tgt' = [tgt EXCEPT ![t] = p]
    /\ result' = [result EXCEPT ![t] = read(p)]
    /\ UNCHANGED <<variant, setVars, objVars, m_payload, flagVars, heap, val, fresh,
                   invoked>>

\* A thread calls acquire_ownership_once on a flag that belongs to no pointer, with a
\* routine that counts its own invocations.
CallAcquire(t, f) ==
    /\ pc[t] = "idle"
    /\ alive[f] /\ origin[f].kind = "flag"
    /\ pc' = [pc EXCEPT ![t] = Entry]
    /\ op' = [op EXCEPT ![t] = "acquire"]
    /\ tgt' = [tgt EXCEPT ![t] = f]
    /\ UNCHANGED <<variant, setVars, result, objVars, m_payload, flagVars, heap, val, fresh,
                   invoked>>

\* ------------------------------------------- manually_ordered_atomics_flag
\* Fault: an exchange that stores desired whatever the atomic holds.
exchange_without_compare(cur, expected, desired) ==
    [stored |-> desired, expected |-> expected]

\* compare_exchange_strong(expected, desired) on an atomic holding cur: the value
\* stored afterwards and the value left in expected.
compare_exchange_strong(cur, expected, desired) ==
    [stored |-> IF cur = expected THEN desired ELSE cur,
     expected |-> cur]

\* Fault: the Owner case runs the acquisition too.
SwitchOwnerAcquires(previous_ownership) ==
    IF previous_ownership = AcquiringOwnership THEN "spin" ELSE "closure"

\* Fault: the AcquiringOwnership case runs the acquisition instead of waiting.
SwitchFollowerAcquires(previous_ownership) ==
    IF previous_ownership = Owner THEN "ret" ELSE "closure"

\* switch(previous_ownership): the case taken.
SwitchPrevious(previous_ownership) ==
    CASE previous_ownership = NotOwner -> "closure"
      [] previous_ownership = AcquiringOwnership -> "spin"
      [] previous_ownership = Owner -> "ret"

\* previous_ownership = NotOwner; m_ownership_status.compare_exchange_strong(
\*    previous_ownership, AcquiringOwnership, acq_rel, acquire); switch(previous_ownership)
AtomicCAS(t) ==
    /\ pc[t] = "cas"
    /\ LET f == tgt[t]
           r == compare_exchange_strong(m_ownership_status[f], NotOwner, AcquiringOwnership)
       IN /\ m_ownership_status' = [m_ownership_status EXCEPT ![f] = r.stored]
          /\ pc' = [pc EXCEPT ![t] = SwitchPrevious(r.expected)]
    /\ UNCHANGED <<variant, setVars, objVars, m_payload, m_owned, m_ownership_mutex,
                   m_ownership_flag, heap, callVars, fresh, invoked>>

\* case NotOwner, after acquisition_routine(): m_ownership_status.store(Owner, release)
AtomicStore(t) ==
    /\ pc[t] = "store"
    /\ m_ownership_status' = [m_ownership_status EXCEPT ![tgt[t]] = Owner]
    /\ pc' = [pc EXCEPT ![t] = "ret"]
    /\ UNCHANGED <<variant, setVars, objVars, m_payload, m_owned, m_ownership_mutex,
                   m_ownership_flag, heap, callVars, fresh, invoked>>

\* Fault: a follower that does not wait.
SpinNever(status) == FALSE

\* Fault: a follower that never stops waiting.
SpinAlways(status) == TRUE

\* The condition that keeps a follower in its wait loop.
SpinAgain(status) == status # Owner

\* case AcquiringOwnership: while(m_ownership_status.load(acquire) != Owner);
AtomicSpin(t) ==
    /\ pc[t] = "spin"
    /\ pc' = [pc EXCEPT ![t] = IF SpinAgain(m_ownership_status[tgt[t]]) THEN "spin" ELSE "ret"]
    /\ UNCHANGED <<variant, setVars, objVars, m_payload, flagVars, heap, callVars, fresh,
                   invoked>>

\* -------------------------------------- mutex_flag and cow_ownership_flag
\* Fault: a lock that is taken without waiting for its holder.
MutexLockNoWait(t) ==
    /\ pc[t] = "lock"
    /\ m_ownership_mutex' = [m_ownership_mutex EXCEPT ![tgt[t]] = t]
    /\ pc' = [pc EXCEPT ![t] = "test"]
    /\ UNCHANGED <<variant, setVars, objVars, m_payload, m_owned, m_ownership_status,
                   m_ownership_flag, heap, callVars, fresh, invoked>>

\* std::lock_guard<std::mutex> lock(m_ownership_mutex): blocks while another thread holds it.
MutexLock(t) ==
    /\ pc[t] = "lock"
    /\ m_ownership_mutex[tgt[t]] = NoThread
    /\ m_ownership_mutex' = [m_ownership_mutex EXCEPT ![tgt[t]] = t]
    /\ pc' = [pc EXCEPT ![t] = "test"]
    /\ UNCHANGED <<variant, setVars, objVars, m_payload, m_owned, m_ownership_status,
                   m_ownership_flag, heap, callVars, fresh, invoked>>

\* if(!m_owned), with the mutex held
MutexTest(t) ==
    /\ pc[t] = "test" /\ variant = MutexFlag
    /\ pc' = [pc EXCEPT ![t] = IF ~m_owned[tgt[t]] THEN "closure" ELSE "unlock"]
    /\ UNCHANGED <<variant, setVars, objVars, m_payload, flagVars, heap, callVars, fresh,
                   invoked>>

\* m_owned = true, with the mutex held
MutexSetOwned(t) ==
    /\ pc[t] = "setowned" /\ variant = MutexFlag
    /\ m_owned' = [m_owned EXCEPT ![tgt[t]] = TRUE]
    /\ pc' = [pc EXCEPT ![t] = "unlock"]
    /\ UNCHANGED <<variant, setVars, objVars, m_payload, m_ownership_mutex,
                   m_ownership_status, m_ownership_flag, heap, callVars, fresh, invoked>>

\* the lock_guard goes out of scope
MutexUnlock(t) ==
    /\ pc[t] = "unlock"
    /\ m_ownership_mutex' = [m_ownership_mutex EXCEPT ![tgt[t]] = NoThread]
    /\ pc' = [pc EXCEPT ![t] = "ret"]
    /\ UNCHANGED <<variant, setVars, objVars, m_payload, m_owned, m_ownership_status,
                   m_ownership_flag, heap, callVars, fresh, invoked>>

\* ------------------------------------------------------ thread_unsafe_flag
\* Fault: the routine is skipped when the pointer is the only holder of its block.
UnsafeTestUseCount(t) ==
    /\ pc[t] = "test" /\ variant = UnsafeFlag
    /\ pc' = [pc EXCEPT ![t] = IF ~m_owned[tgt[t]] /\ heap[m_payload[tgt[t]]].use > 1
                               THEN "closure" ELSE "ret"]
    /\ UNCHANGED <<variant, setVars, objVars, m_payload, flagVars, heap, callVars, fresh,
                   invoked>>

\* if(!m_owned)
UnsafeTest(t) ==
    /\ pc[t] = "test" /\ variant = UnsafeFlag
    /\ pc' = [pc EXCEPT ![t] = IF ~m_owned[tgt[t]] THEN "closure" ELSE "ret"]
    /\ UNCHANGED <<variant, setVars, objVars, m_payload, flagVars, heap, callVars, fresh,
                   invoked>>

\* Fault: the routine is run but m_owned is left as it was.
UnsafeSetOwnedSkipped(t) ==
    /\ pc[t] = "setowned" /\ variant = UnsafeFlag
    /\ pc' = [pc EXCEPT ![t] = "ret"]
    /\ UNCHANGED <<variant, setVars, objVars, m_payload, flagVars, heap, callVars, fresh,
                   invoked>>

\* m_owned = true
UnsafeSetOwned(t) ==
    /\ pc[t] = "setowned" /\ variant = UnsafeFlag
    /\ m_owned' = [m_owned EXCEPT ![tgt[t]] = TRUE]
    /\ pc' = [pc EXCEPT ![t] = "ret"]
    /\ UNCHANGED <<variant, setVars, objVars, m_payload, m_ownership_mutex,
                   m_ownership_status, m_ownership_flag, heap, callVars, fresh, invoked>>

\* ------------------------------------------- std::once_flag (the other cow_ptr)
\* std::call_once(m_ownership_flag, f): returns at once when a call has already run its
\* function to the end, runs f when none has started, and waits while another runs it.
OnceCall(t) ==
    /\ pc[t] = "call_once" /\ variant = OnceFlag
    /\ m_ownership_flag[tgt[t]] # OnceRunning
    /\ IF m_ownership_flag[tgt[t]] = OnceDone
       THEN /\ pc' = [pc EXCEPT ![t] = "ret"]
            /\ UNCHANGED m_ownership_flag
       ELSE /\ pc' = [pc EXCEPT ![t] = "closure"]
            /\ m_ownership_flag' = [m_ownership_flag EXCEPT ![tgt[t]] = OnceRunning]
    /\ UNCHANGED <<variant, setVars, objVars, m_payload, m_owned, m_ownership_mutex,
                   m_ownership_status, heap, callVars, fresh, invoked>>

\* f returned: the flag records it and call_once returns.
OnceDoneStep(t) ==
    /\ pc[t] = "once_done" /\ variant = OnceFlag
    /\ m_ownership_flag' = [m_ownership_flag EXCEPT ![tgt[t]] = OnceDone]
    /\ pc' = [pc EXCEPT ![t] = "ret"]
    /\ UNCHANGED <<variant, setVars, objVars, m_payload, m_owned, m_ownership_mutex,
                   m_ownership_status, heap, callVars, fresh, invoked>>

\* ----------------------------------------------------------- set_ownership
\* First step of set_ownership(owned) in the variant in use.
SetEntry ==
    CASE variant = AtomicFlag -> "so_load"
      [] variant = MutexFlag -> "so_lock"
      [] variant = UnsafeFlag -> "so_assign"

\* A thread calls set_ownership(b) on a flag that belongs to no pointer.
CallSetOwnership(t, f, b) ==
    /\ pc[t] = "idle"
    /\ alive[f] /\ origin[f].kind = "flag"
    /\ pc' = [pc EXCEPT ![t] = SetEntry]
    /\ op' = [op EXCEPT ![t] = "set_ownership"]
    /\ tgt' = [tgt EXCEPT ![t] = f]
    /\ owned' = [owned EXCEPT ![t] = b]
    /\ UNCHANGED <<variant, current_ownership, result, objVars, m_payload, flagVars, heap, val,
                   fresh, invoked>>

\* set_ownership_status(to_ownership_status(owned)): the desired_ownership of the call.
desired_ownership(t) == to_ownership_status(owned[t])

\* OwnershipStatusType current_ownership = m_ownership_status.load(consume);
AtomicSetLoad(t) ==
    /\ pc[t] = "so_load"
    /\ current_ownership' = [current_ownership EXCEPT ![t] = m_ownership_status[tgt[t]]]
    /\ pc' = [pc EXCEPT ![t] = "so_wait"]
    /\ UNCHANGED <<variant, owned, objVars, m_payload, flagVars, heap, callVars, fresh,
                   invoked>>

\* Fault: a set_ownership that does not wait for an acquisition in progress.
SetNeverWaits(current) == FALSE

\* The condition of the inner loop: while(current_ownership == AcquiringOwnership)
SetWaits(current) == current = AcquiringOwnership

\* ... its body: current_ownership = m_ownership_status.load(consume);
AtomicSetReload(t) ==
    /\ pc[t] = "so_wait"
    /\ SetWaits(current_ownership[t])
    /\ current_ownership' = [current_ownership EXCEPT ![t] = m_ownership_status[tgt[t]]]
    /\ UNCHANGED <<variant, owned, objVars, m_payload, flagVars, heap, pc, callVars, fresh,
                   invoked>>

\* ... and its exit, to the exchange that ends the body of the do-while loop.
AtomicSetTest(t) ==
    /\ pc[t] = "so_wait"
    /\ ~SetWaits(current_ownership[t])
    /\ pc' = [pc EXCEPT ![t] = "so_cas"]
    /\ UNCHANGED <<variant, setVars, objVars, m_payload, flagVars, heap, callVars, fresh,
                   invoked>>

\* Fault: a weak exchange that stores without comparing.
exchange_weak_without_compare(cur, expected, desired) ==
    {[stored |-> desired, expected |-> expected, success |-> TRUE],
     [stored |-> cur, expected |-> cur, success |-> FALSE]}

\* compare_exchange_weak(expected, desired) on an atomic holding cur: the outcomes it
\* may have.  It fails when cur differs from expected, and may fail spuriously when
\* they are equal; a failure loads cur into expected.
compare_exchange_weak(cur, expected, desired) ==
    IF cur = expected
    THEN {[stored |-> desired, expected |-> expected, success |-> TRUE],
          [stored |-> cur, expected |-> cur, success |-> FALSE]}
    ELSE {[stored |-> cur, expected |-> cur, success |-> FALSE]}

\* do { ... } while(m_ownership_status.compare_exchange_weak(current_ownership,
\*    desired_ownership, acq_rel, consume)): the loop goes round when the exchange
\* returned true.
SetLoopsAgain(exchanged) == exchanged

\* The exchange at the end of the do-while body, and the loop's test.
AtomicSetCAS(t) ==
    /\ pc[t] = "so_cas"
    /\ LET f == tgt[t]
       IN \E r \in compare_exchange_weak(m_ownership_status[f], current_ownership[t],
                                          desired_ownership(t)) :
             /\ m_ownership_status' = [m_ownership_status EXCEPT ![f] = r.stored]
             /\ IF SetLoopsAgain(r.success)
                THEN /\ current_ownership' = [current_ownership EXCEPT ![t] = r.expected]
                     /\ pc' = [pc EXCEPT ![t] = "so_wait"]
                ELSE /\ current_ownership' = [current_ownership EXCEPT ![t] = NotOwner]
                     /\ pc' = [pc EXCEPT ![t] = "ret"]
    /\ UNCHANGED <<variant, owned, objVars, m_payload, m_owned, m_ownership_mutex,
                   m_ownership_flag, heap, callVars, fresh, invoked>>

\* mutex_flag::set_ownership: std::lock_guard<std::mutex> lock(m_ownership_mutex);
MutexSetLock(t) ==
    /\ pc[t] = "so_lock"
    /\ m_ownership_mutex[tgt[t]] = NoThread
    /\ m_ownership_mutex' = [m_ownership_mutex EXCEPT ![tgt[t]] = t]
    /\ pc' = [pc EXCEPT ![t] = "so_assign"]
    /\ UNCHANGED <<variant, setVars, objVars, m_payload, m_owned, m_ownership_status,
                   m_ownership_flag, heap, callVars, fresh, invoked>>

\* m_owned = owned; with the mutex held, then the lock_guard releases it
MutexSetAssign(t) ==
    /\ pc[t] = "so_assign" /\ variant = MutexFlag
    /\ m_owned' = [m_owned EXCEPT ![tgt[t]] = owned[t]]
    /\ pc' = [pc EXCEPT ![t] = "unlock"]
    /\ UNCHANGED <<variant, setVars, objVars, m_payload, m_ownership_mutex,
                   m_ownership_status, m_ownership_flag, heap, callVars, fresh, invoked>>

\* thread_unsafe_flag::set_ownership: m_owned = owned;
UnsafeSetAssign(t) ==
    /\ pc[t] = "so_assign" /\ variant = UnsafeFlag
    /\ m_owned' = [m_owned EXCEPT ![tgt[t]] = owned[t]]
    /\ pc' = [pc EXCEPT ![t] = "ret"]
    /\ UNCHANGED <<variant, setVars, objVars, m_payload, m_ownership_mutex,
                   m_ownership_status, m_ownership_flag, heap, callVars, fresh, invoked>>

\* set_ownership has returned to its caller.
SetOwnershipReturn(t) ==
    /\ pc[t] = "ret" /\ op[t] = "set_ownership"
    /\ pc' = [pc EXCEPT ![t] = "done"]
    /\ UNCHANGED <<variant, setVars, objVars, m_payload, flagVars, heap, callVars, fresh,
                   invoked>>

\* ------------------------------------------------- acquisition routines
\* The block the lambda of copy_if_not_owner reads its copy from.
CloneSource(p) == m_payload[p]

\* [this](){ m_payload = std::make_shared<T>(*m_payload); }, the right-hand side:
\* a new block holding a copy of the current payload.
CloneAlloc(t) ==
    /\ pc[t] = "closure" /\ op[t] = "write"
    /\ heap' = NewBlock(heap, heap[CloneSource(tgt[t])].val)
    /\ fresh' = [fresh EXCEPT ![t] = NewBlockId(heap)]
    /\ invoked' = [invoked EXCEPT ![tgt[t]] = @ + 1]
    /\ pc' = [pc EXCEPT ![t] = "clone_assign"]
    /\ UNCHANGED <<variant, setVars, objVars, m_payload, flagVars, callVars>>

\* Fault: the new block is given to every pointer that held the old one.
CloneAssignShared(t) ==
    /\ pc[t] = "clone_assign"
    /\ LET p == tgt[t]
       IN /\ m_payload' = [q \in Inst |-> IF m_payload[q] = m_payload[p] THEN fresh[t]
                                          ELSE m_payload[q]]
          /\ heap' = SharedPtrRelease(heap, m_payload[p])
    /\ fresh' = [fresh EXCEPT ![t] = NULL]
    /\ pc' = [pc EXCEPT ![t] = AfterClosure]
    /\ UNCHANGED <<variant, setVars, objVars, flagVars, callVars, invoked>>

\* ... the assignment: m_payload takes the new block and drops the one it held.
CloneAssign(t) ==
    /\ pc[t] = "clone_assign"
    /\ LET p == tgt[t]
       IN /\ m_payload' = [m_payload EXCEPT ![p] = fresh[t]]
          /\ heap' = SharedPtrRelease(heap, m_payload[p])
    /\ fresh' = [fresh EXCEPT ![t] = NULL]
    /\ pc' = [pc EXCEPT ![t] = AfterClosure]
    /\ UNCHANGED <<variant, setVars, objVars, flagVars, callVars, invoked>>

\* The counting routine of a flag used on its own.
CountingClosure(t) ==
    /\ pc[t] = "closure" /\ op[t] = "acquire"
    /\ invoked' = [invoked EXCEPT ![tgt[t]] = @ + 1]
    /\ pc' = [pc EXCEPT ![t] = AfterClosure]
    /\ UNCHANGED <<variant, setVars, objVars, m_payload, flagVars, heap, callVars, fresh>>

\* An acquisition routine that does nothing and returns.
RoutineReturns(t) ==
    /\ pc[t] = "closure" /\ op[t] = "acquire"
    /\ pc' = [pc EXCEPT ![t] = AfterClosure]
    /\ UNCHANGED <<variant, setVars, objVars, m_payload, flagVars, heap, callVars, fresh,
                   invoked>>

\* Where an exception thrown by the acquisition routine goes: out of
\* acquire_ownership_once, past the statement that follows the routine; in mutex_flag
\* the lock_guard is destroyed on the way.
AfterThrow == IF variant = MutexFlag THEN "unwind" ELSE "thrown"

\* An acquisition routine that throws.
RoutineThrows(t) ==
    /\ pc[t] = "closure" /\ op[t] = "acquire"
    /\ pc' = [pc EXCEPT ![t] = AfterThrow]
    /\ UNCHANGED <<variant, setVars, objVars, m_payload, flagVars, heap, callVars, fresh,
                   invoked>>

\* Fault: an exception that leaves the mutex locked.
MutexUnwindKeepsLock(t) ==
    /\ pc[t] = "unwind"
    /\ pc' = [pc EXCEPT ![t] = "thrown"]
    /\ UNCHANGED <<variant, setVars, objVars, m_payload, flagVars, heap, callVars, fresh,
                   invoked>>

\* Stack unwinding in mutex_flag::acquire_ownership_once: ~lock_guard unlocks the mutex.
MutexUnwind(t) ==
    /\ pc[t] = "unwind"
    /\ m_ownership_mutex' = [m_ownership_mutex EXCEPT ![tgt[t]] = NoThread]
    /\ pc' = [pc EXCEPT ![t] = "thrown"]
    /\ UNCHANGED <<variant, setVars, objVars, m_payload, m_owned, m_ownership_status,
                   m_ownership_flag, heap, callVars, fresh, invoked>>

\* The caller of acquire_ownership_once catches the exception and goes on.
Catch(t) ==
    /\ pc[t] = "thrown"
    /\ pc' = [pc EXCEPT ![t] = "idle"]
    /\ op' = [op EXCEPT ![t] = "none"]
    /\ tgt' = [tgt EXCEPT ![t] = 0]
    /\ UNCHANGED <<variant, setVars, result, objVars, m_payload, flagVars, heap, val, fresh,
                   invoked>>

\* ------------------------------------------------------------ after return
\* Fault: write assigns through the handle of the object p was constructed from.
WriteTargetOfSource(p) == m_payload[origin[p].src]

\* The block write assigns into.
WriteTarget(p) == m_payload[p]

\* *m_payload = value; and write returns.
WriteAssign(t) ==
    /\ pc[t] = "ret" /\ op[t] = "write"
    /\ heap' = [heap EXCEPT ![WriteTarget(tgt[t])].val = val[t]]
    /\ pc' = [pc EXCEPT ![t] = "done"]
    /\ UNCHANGED <<variant, setVars, objVars, m_payload, flagVars, callVars, fresh, invoked>>

\* acquire_ownership_once, called on its own, has returned to its caller.
FlagReturn(t) ==
    /\ pc[t] = "ret" /\ op[t] = "acquire"
    /\ pc' = [pc EXCEPT ![t] = "done"]
    /\ UNCHANGED <<variant, setVars, objVars, m_payload, flagVars, heap, callVars, fresh,
                   invoked>>

\* The thread is done with its call and free to make another.
Return(t) ==
    /\ pc[t] = "done"
    /\ pc' = [pc EXCEPT ![t] = "idle"]
    /\ op' = [op EXCEPT ![t] = "none"]
    /\ tgt' = [tgt EXCEPT ![t] = 0]
    /\ val' = [val EXCEPT ![t] = 0]
    /\ result' = [result EXCEPT ![t] = 0]
    /\ owned' = [owned EXCEPT ![t] = FALSE]
    /\ UNCHANGED <<variant, current_ownership, objVars, m_payload, flagVars, heap, fresh,
                   invoked>>

\* --------------------------------------------------------- specifications
InitCommon ==
    /\ variant \in Variants
    /\ moved = [p \in Inst |-> FALSE]
    /\ m_payload = [p \in Inst |-> NULL]
    /\ m_ownership_mutex = [p \in Inst |-> NoThread]
    /\ m_ownership_flag = [p \in Inst |-> OnceIdle]
    /\ heap = <<>>
    /\ pc = [t \in Threads |-> "idle"]
    /\ op = [t \in Threads |-> "none"]
    /\ tgt = [t \in Threads |-> 0]
    /\ val = [t \in Threads |-> 0]
    /\ result = [t \in Threads |-> 0]
    /\ fresh = [t \in Threads |-> NULL]
    /\ invoked = [p \in Inst |-> 0]
    /\ owned = [t \in Threads |-> FALSE]
    /\ current_ownership = [t \in Threads |-> NotOwner]

\* A program that has constructed no pointer yet.
Init ==
    /\ InitCommon
    /\ ninst = 0
    /\ alive = [p \in Inst |-> FALSE]
    /\ origin = [p \in Inst |-> NoOrigin]
    /\ m_owned = [p \in Inst |-> FALSE]
    /\ m_ownership_status = [p \in Inst |-> NotOwner]

\* The steps of acquire_ownership_once, the wait loop of the atomic flag apart.
FlagSteps(t) ==
    \/ AtomicCAS(t) \/ AtomicStore(t)
    \/ MutexLock(t) \/ MutexTest(t) \/ MutexSetOwned(t) \/ MutexUnlock(t)
    \/ UnsafeTest(t) \/ UnsafeSetOwned(t)

\* One client thread: every call runs to its end before the next one starts, so no
\* call finds AcquiringOwnership and the wait loop is never entered.
MainThread == CHOOSE t \in Threads : \A u \in Threads : t <= u

Next ==
    \E t \in {MainThread} :
        \/ \E v \in Values : ConstructFromResource(t, v)
        \/ \E src \in Inst : CopyConstruct(t, src)
        \/ \E src \in Inst : MoveConstruct(t, src)
        \/ \E p \in Inst : Destroy(t, p)
        \/ \E p \in Inst, v \in Values : CallWrite(t, p, v)
        \/ FlagSteps(t)
        \/ CloneAlloc(t) \/ CloneAssign(t) \/ WriteAssign(t) \/ Return(t)

Spec == Init /\ [][Next]_vars

\* The program of the concurrency scenarios: the main thread constructs a pointer from
\* a resource and a copy of it, then every thread makes at most one write call on
\* either of the two, all concurrently, and is joined.
Built == ninst >= 2

NextMT ==
    \/ \E v \in Values : ninst = 0 /\ ConstructFromResource(MainThread, v)
    \/ ninst = 1 /\ CopyConstruct(MainThread, ninst)
    \/ \E t \in Threads, p \in Inst, v \in Values : Built /\ CallWrite(t, p, v)
    \/ \E t \in Threads :
          \/ FlagSteps(t) \/ AtomicSpin(t)
          \/ CloneAlloc(t) \/ CloneAssign(t) \/ WriteAssign(t)

SpecMT == Init /\ [][NextMT]_vars

\* The same program with readers: the main thread may construct one more pointer, a
\* copy or a move of either of the two, before the threads start; then every thread
\* makes at most one call, a read or a write, on any of the pointers.
Started == \E t \in Threads : pc[t] # "idle"

NextReaders ==
    \/ \E v \in Values : ninst = 0 /\ ConstructFromResource(MainThread, v)
    \/ ninst = 1 /\ CopyConstruct(MainThread, ninst)
    \/ \E src \in Inst : ninst = 2 /\ ~Started /\ CopyConstruct(MainThread, src)
    \/ \E src \in Inst : ninst = 2 /\ ~Started /\ MoveConstruct(MainThread, src)
    \/ \E t \in Threads, p \in Inst, v \in Values : Built /\ CallWrite(t, p, v)
    \/ \E t \in Threads, p \in Inst : Built /\ Read(t, p)
    \/ \E t \in Threads :
          \/ FlagSteps(t) \/ AtomicSpin(t)
          \/ CloneAlloc(t) \/ CloneAssign(t) \/ WriteAssign(t)

SpecReaders == Init /\ [][NextReaders]_vars

\* One client thread using one of the two cow_ptr classes, the one with a flag object
\* (in any of its variants) or the one with a std::once_flag: the constructors, read
\* and write.
InitEither ==
    /\ variant \in Variants \cup {OnceFlag}
    /\ ninst = 0
    /\ alive = [p \in Inst |-> FALSE]
    /\ moved = [p \in Inst |-> FALSE]
    /\ origin = [p \in Inst |-> NoOrigin]
    /\ m_payload = [p \in Inst |-> NULL]
    /\ m_owned = [p \in Inst |-> FALSE]
    /\ m_ownership_mutex = [p \in Inst |-> NoThread]
    /\ m_ownership_status = [p \in Inst |-> NotOwner]
    /\ m_ownership_flag = [p \in Inst |-> OnceIdle]
    /\ heap = <<>>
    /\ pc = [t \in Threads |-> "idle"]
    /\ op = [t \in Threads |-> "none"]
    /\ tgt = [t \in Threads |-> 0]
    /\ val = [t \in Threads |-> 0]
    /\ result = [t \in Threads |-> 0]
    /\ fresh = [t \in Threads |-> NULL]
    /\ invoked = [p \in Inst |-> 0]
    /\ owned = [t \in Threads |-> FALSE]
    /\ current_ownership = [t \in Threads |-> NotOwner]

NextEither ==
    \E t \in {MainThread} :
        \/ \E v \in Values : ConstructFromResource(t, v)
        \/ \E src \in Inst : CopyConstruct(t, src)
        \/ \E src \in Inst : MoveConstruct(t, src)
        \/ \E p \in Inst, v \in Values : CallWrite(t, p, v)
        \/ \E p \in Inst : Read(t, p)
        \/ FlagSteps(t) \/ OnceCall(t) \/ OnceDoneStep(t)
        \/ CloneAlloc(t) \/ CloneAssign(t) \/ WriteAssign(t) \/ Return(t)

SpecEither == InitEither /\ [][NextEither]_vars

\* A program holding flags only, each constructed with some initially_owned.
InitFlag ==
    /\ InitCommon
    /\ ninst = MaxInst
    /\ alive = [p \in Inst |-> TRUE]
    /\ \E initially_owned \in [Inst -> BOOLEAN] :
          /\ origin = [p \in Inst |-> [kind |-> "flag", src |-> p, val |-> 0,
                                       owned |-> initially_owned[p]]]
          /\ m_owned = [p \in Inst |-> variant # AtomicFlag /\ initially_owned[p]]
          /\ m_ownership_status =
                [p \in Inst |-> IF variant = AtomicFlag
                                THEN to_ownership_status(initially_owned[p]) ELSE NotOwner]

NextFlag ==
    \/ \E t \in Threads, f \in Inst : CallAcquire(t, f)
    \/ \E t \in Threads :
          \/ FlagSteps(t) \/ AtomicSpin(t)
          \/ CountingClosure(t) \/ FlagReturn(t) \/ Return(t)

SpecFlag == InitFlag /\ [][NextFlag]_vars

\* Flags whose acquisition routine may throw.
NextThrow ==
    \/ \E t \in Threads, f \in Inst : CallAcquire(t, f)
    \/ \E t \in Threads :
          \/ FlagSteps(t) \/ AtomicSpin(t)
          \/ RoutineReturns(t) \/ RoutineThrows(t) \/ MutexUnwind(t) \/ Catch(t)
          \/ FlagReturn(t) \/ Return(t)

SpecThrow == InitFlag /\ [][NextThrow]_vars

\* The steps of set_ownership, the wait loop of the atomic flag apart.
SetSteps(t) ==
    \/ AtomicSetLoad(t) \/ AtomicSetTest(t) \/ AtomicSetCAS(t)
    \/ MutexSetLock(t) \/ MutexSetAssign(t)
    \/ UnsafeSetAssign(t)

\* The steps a thread takes inside a call on a flag, once it has made the call.
InCall(t) ==
    \/ FlagSteps(t) \/ SetSteps(t)
    \/ RoutineReturns(t) \/ FlagReturn(t) \/ SetOwnershipReturn(t)

\* A program holding one flag, constructed with some initially_owned.
InitOneFlag ==
    /\ InitCommon
    /\ ninst = 1
    /\ alive = [p \in Inst |-> p = 1]
    /\ \E initially_owned \in BOOLEAN :
          /\ origin = [p \in Inst |->
                          IF p = 1 THEN [kind |-> "flag", src |-> p, val |-> 0,
                                         owned |-> initially_owned]
                          ELSE NoOrigin]
          /\ m_owned = [p \in Inst |-> p = 1 /\ variant # AtomicFlag /\ initially_owned]
          /\ m_ownership_status =
                [p \in Inst |-> IF p = 1 /\ variant = AtomicFlag
                                THEN to_ownership_status(initially_owned) ELSE NotOwner]

\* One flag on which threads call set_ownership and acquire_ownership_once.
NextSet ==
    \/ \E t \in Threads, f \in Inst : CallAcquire(t, f)
    \/ \E t \in Threads, f \in Inst, b \in BOOLEAN : CallSetOwnership(t, f, b)
    \/ \E t \in Threads : InCall(t) \/ AtomicSpin(t) \/ AtomicSetReload(t) \/ Return(t)

SpecSet == InitOneFlag /\ [][NextSet]_vars

\* ... with a scheduler that is weakly fair to every thread inside a call.
SpecSetFair ==
    SpecSet /\ \A t \in Threads : WF_vars(InCall(t) \/ AtomicSpin(t) \/ AtomicSetReload(t))

\* What a thread does by itself once it is inside acquire_ownership_once, the routine
\* being one that terminates.
ThreadRuns(t) ==
    FlagSteps(t) \/ AtomicSpin(t) \/ CountingClosure(t) \/ FlagReturn(t)

\* One flag, no set_ownership call, and a scheduler that is weakly fair to every
\* thread: a thread that can keep going does.  std::mutex::lock is a step that is
\* possible only while the mutex is free.
SpecFlagLive ==
    InitOneFlag /\ [][NextFlag]_vars /\ \A t \in Threads : WF_vars(ThreadRuns(t))

\* The same calls issued by one thread, each after the one before has returned: no
\* call finds AcquiringOwnership, and neither wait loop is entered.
NextSetST ==
    \E t \in {MainThread} :
        \/ \E f \in Inst : CallAcquire(t, f)
        \/ \E f \in Inst, b \in BOOLEAN : CallSetOwnership(t, f, b)
        \/ InCall(t) \/ Return(t)

SpecSetST == InitFlag /\ [][NextSetST]_vars

\* ... with a scheduler that keeps running the thread while it is inside a call.
SpecSetLive == SpecSetST /\ WF_vars(InCall(MainThread))

\* ================================================================ properties
\* Threads whose call on p has returned from acquire_ownership_once.
Returned(p) == {t \in Threads : tgt[t] = p /\ pc[t] \in {"ret", "done"}}

\* Threads that have made their call on p and finished it.
Done(p) == {t \in Threads : tgt[t] = p /\ pc[t] = "done"}

\* Threads inside the acquisition routine of p's flag.
InClosure(p) == {t \in Threads : tgt[t] = p /\ pc[t] \in {"closure", "clone_assign"}}

\* C1: atomic flag constructed not owned, any number of concurrent
\* acquire_ownership_once calls: the routine has run at most once at any time, and
\* exactly once as soon as one call has returned or the flag reads Owner.
C1_AtomicRunsOnce ==
    variant = AtomicFlag =>
        \A f \in Inst : ~origin[f].owned =>
            /\ invoked[f] <= 1
            /\ (Returned(f) # {} \/ m_ownership_status[f] = Owner) => invoked[f] = 1

\* Every thread has called acquire_ownership_once on one atomic flag constructed not
\* owned, and has returned.
C1_Witness ==
    /\ variant = AtomicFlag
    /\ \E f \in Inst : ~origin[f].owned /\ invoked[f] = 1 /\ Returned(f) = Threads
                       /\ \A t \in Threads : pc[t] = "done"

\* C2: mutex flag constructed not owned, any number of concurrent
\* acquire_ownership_once calls: the routine has run at most once at any time, and
\* exactly once as soon as one call has returned or m_owned is set.
C2_MutexRunsOnce ==
    variant = MutexFlag =>
        \A f \in Inst : ~origin[f].owned =>
            /\ invoked[f] <= 1
            /\ (Returned(f) # {} \/ m_owned[f]) => invoked[f] = 1

\* Every thread has called acquire_ownership_once on one mutex flag constructed not
\* owned, and has returned.
C2_Witness ==
    /\ variant = MutexFlag
    /\ \E f \in Inst : ~origin[f].owned /\ invoked[f] = 1 /\ Returned(f) = Threads
                       /\ \A t \in Threads : pc[t] = "done"

\* C4: a flag of any variant constructed owned: no call runs the routine, and the flag
\* stays Owner.
C4_OwnerFastPath ==
    \A f \in Inst : (alive[f] /\ origin[f].owned) => invoked[f] = 0 /\ IsOwner(f)

\* Every thread has called acquire_ownership_once on one flag constructed owned, and
\* has returned.
C4_Witness ==
    \E f \in Inst : origin[f].owned /\ Returned(f) = Threads /\ \A t \in Threads : pc[t] = "done"

\* C16: thread_unsafe_flag constructed not owned.  A call that returns leaves the
\* routine run at least once and m_owned set.  A call enters the routine only if the
\* routine has not run yet, or while another thread's call on the flag is between the
\* routine and m_owned = true; hence calls made one after the other, as by one thread,
\* run it exactly once, and only concurrent calls can run it twice.
C16_UnsafeFlag ==
    [][variant = UnsafeFlag =>
          \A f \in Inst, t \in Threads : (~origin[f].owned /\ tgt[t] = f) =>
              /\ (pc[t] # "ret" /\ pc'[t] = "ret") => invoked'[f] >= 1 /\ m_owned'[f]
              /\ (pc[t] = "test" /\ pc'[t] = "closure") =>
                    \/ invoked[f] = 0
                    \/ \E u \in Threads \ {t} : tgt[u] = f /\ pc[u] = "setowned"]_vars

\* Two concurrent calls on one thread_unsafe_flag have both run the routine and
\* returned.
C16_Witness ==
    /\ variant = UnsafeFlag
    /\ \E f \in Inst : ~origin[f].owned /\ invoked[f] = 2 /\ m_owned[f]
                       /\ Cardinality(Done(f)) = 2

\* ------------------------------------------------ the two-pointer scenarios
\* Every thread either made no call or has finished the one it made.
Joined == \A t \in Threads : pc[t] \in {"idle", "done"}

\* C3: mutex and atomic flags: when acquire_ownership_once has returned to a caller,
\* no thread is inside the acquisition routine of that flag, the flag reads Owner,
\* and for a pointer that was constructed as a copy the one clone is installed: the
\* routine ran once, no new block is left unassigned, and the handle holds a block
\* other than the one of the pointer it was copied from.
C3_ReturnAfterAcquisition ==
    variant # UnsafeFlag =>
        \A t \in Threads : pc[t] = "ret" =>
            LET p == tgt[t]
            IN /\ InClosure(p) = {}
               /\ IsOwner(p)
               /\ ~origin[p].owned =>
                     /\ invoked[p] = 1
                     /\ \A u \in Threads : tgt[u] = p => fresh[u] = NULL
                     /\ m_payload[p] # m_payload[origin[p].src]

\* Two calls on the copy have both returned from acquire_ownership_once: one of them
\* was the leader, the other waited or came later.
C3_Witness ==
    /\ variant # UnsafeFlag
    /\ \E p \in Inst : ~origin[p].owned /\ alive[p] /\ Cardinality(Returned(p)) >= 2
                       /\ \E t \in Returned(p) : pc[t] = "ret"

\* C5: P1 constructed from a resource holding a, P2 copy-constructed from P1.  Before
\* any write both read a from the same block; once writes of b through P2, and no
\* others, are finished, P1 reads a, P2 reads b and they hold different blocks.
C5_CopyIndependence ==
    Built =>
        LET a == origin[1].val
        IN /\ (\A t \in Threads : pc[t] = "idle") =>
                 read(1) = a /\ read(2) = a /\ m_payload[1] = m_payload[2]
           /\ \A b \in Values :
                 (Joined /\ Done(2) # {} /\ Done(1) = {} /\ \A t \in Done(2) : val[t] = b) =>
                     read(1) = a /\ read(2) = b /\ m_payload[1] # m_payload[2]

\* One write through P2, of a value P1 does not hold, is finished.
C5_Witness ==
    /\ Built /\ Joined /\ Done(1) = {} /\ Cardinality(Done(2)) = 1
    /\ \A t \in Done(2) : val[t] # origin[1].val /\ read(2) = val[t]
    /\ read(1) = origin[1].val

\* C7: mutex and atomic flags, P2 a copy of P1, threads writing through P2 only: at
\* most one clone is ever allocated, P1 keeps reading its value, and when all writers
\* are joined exactly one clone was allocated, two blocks are live and P2 reads one
\* of the values written.
C7_ConcurrentWritersCloneOnce ==
    (variant # UnsafeFlag /\ Built /\ \A t \in Threads : tgt[t] # 1) =>
        /\ invoked[1] + invoked[2] <= 1
        /\ Cardinality(LiveBlocks) <= 2
        /\ read(1) = origin[1].val
        /\ (Joined /\ Done(2) # {}) =>
              /\ invoked[2] = 1
              /\ Cardinality(LiveBlocks) = 2
              /\ read(2) \in {val[t] : t \in Done(2)}

\* Every thread has written through the copy, not all the same value.
C7_Witness ==
    /\ variant # UnsafeFlag /\ Built
    /\ Done(2) = Threads
    /\ \E t, u \in Threads : val[t] # val[u]

\* C8: P1 from a resource, P2 a copy of P1, writes of a through P1 concurrent with
\* writes of b through P2: once all are joined P1 reads a, P2 reads b, P1 still holds
\* the block it was constructed with and P2 a clone, and exactly two blocks are live.
C8_ScenarioB ==
    Built =>
        \A a, b \in Values :
            ( /\ Joined /\ Done(1) # {} /\ Done(2) # {}
              /\ \A t \in Done(1) : val[t] = a
              /\ \A t \in Done(2) : val[t] = b ) =>
                /\ read(1) = a /\ read(2) = b
                /\ invoked[1] = 0 /\ invoked[2] >= 1
                /\ m_payload[1] # m_payload[2]
                /\ Cardinality(LiveBlocks) = 2

\* One thread has written through P1 and another through P2, two different values,
\* both different from the value of the resource.
C8_Witness ==
    /\ Built /\ Joined
    /\ \E t, u \in Threads : /\ t \in Done(1) /\ u \in Done(2)
                             /\ val[t] # val[u]
                             /\ val[t] # origin[1].val /\ val[u] # origin[1].val
                             /\ read(1) = val[t] /\ read(2) = val[u]

\* ------------------------------------------------- one client thread (Spec)
\* Pointers a client may still use: constructed, not destroyed, not moved from.
Usable == {p \in Inst : alive[p] /\ ~moved[p] /\ origin[p].kind # "flag"}

\* C6: a write through one pointer never changes what read() returns on another
\* pointer: the step that assigns the written value leaves the value of every other
\* usable pointer as it was.
C6_SharedBlockImmutable ==
    [][\A t \in Threads :
          (pc[t] = "ret" /\ op[t] = "write" /\ pc'[t] = "done") =>
              \A q \in Usable \ {tgt[t]} : read(q)' = read(q)]_vars

C10_WarmWrite ==
    [][\A t \in Threads, p \in Inst :
          (pc'[t] # pc[t] /\ pc'[t] # "idle" /\ op'[t] = "write" /\ tgt'[t] = p
              /\ origin[p].kind = "resource") =>
              /\ m_payload' = m_payload
              /\ invoked' = invoked
              /\ DOMAIN heap' = DOMAIN heap
              /\ \A b \in DOMAIN heap :
                    /\ heap'[b].use = heap[b].use
                    /\ b # m_payload[p] => heap'[b].val = heap[b].val
              /\ IsOwner(p) /\ IsOwner(p)']_vars

\* A write through a pointer constructed from a resource has finished and changed the
\* value it reads, in the block it was constructed with.
C10_Witness ==
    \E t \in Threads :
        /\ pc[t] = "done" /\ op[t] = "write"
        /\ origin[tgt[t]].kind = "resource" /\ invoked[tgt[t]] = 0
        /\ read(tgt[t]) = val[t] /\ val[t] # origin[tgt[t]].val

\* Blocks a step allocates: in use after it, not before.
Allocated ==
    {b \in DOMAIN heap' : heap'[b].use > 0 /\ (b \notin DOMAIN heap \/ heap[b].use = 0)}

\* C11: writes through a copy-constructed pointer, one after the other: a step of such
\* a write allocates a block only if the pointer's routine never ran before, it then
\* allocates exactly one, holding the value the pointer read at that moment; every
\* write that finishes leaves the routine run exactly once, so the one allocation is
\* made by the first write and later writes allocate nothing.
C11_ColdWrite ==
    [][\A t \in Threads, p \in Inst :
          (pc[t] # "idle" /\ op[t] = "write" /\ tgt[t] = p /\ origin[p].kind = "copy") =>
              /\ Allocated # {} =>
                    /\ invoked[p] = 0 /\ invoked'[p] = 1
                    /\ Cardinality(Allocated) = 1
                    /\ \A b \in Allocated : heap'[b].val = read(p)
              /\ invoked'[p] # invoked[p] => Allocated # {}
              /\ pc'[t] = "done" => invoked'[p] = 1]_vars

\* A later write through a copy of a resource-constructed pointer is past
\* copy_if_not_owner: the copy already reads something else than its source, so it was
\* cloned by an earlier write, and its routine has run once.
C11_Witness ==
    \E t \in Threads :
        /\ pc[t] = "ret" /\ op[t] = "write"
        /\ origin[tgt[t]].kind = "copy" /\ invoked[tgt[t]] = 1
        /\ LET s == origin[tgt[t]].src
           IN origin[s].kind = "resource" /\ alive[s] /\ read(tgt[t]) # read(s)
        /\ val[t] # read(tgt[t])

\* The object a step constructs, if any.
Constructed(p) == ~alive[p] /\ alive'[p]

\* C12: the step that constructs a pointer from a resource holding v leaves its flag
\* Owner and the pointer reading v; the step that move-constructs a pointer from any
\* source leaves its flag Owner and the pointer reading what the source read.
C12_ResourceAndMoveOwn ==
    [][\A p \in Inst :
          (Constructed(p) /\ origin'[p].kind \in {"resource", "move"}) =>
              /\ IsOwner(p)'
              /\ origin'[p].kind = "resource" => read(p)' = origin'[p].val
              /\ origin'[p].kind = "move" =>
                    \A s \in Inst : origin'[p].src = s => read(p)' = read(s)]_vars

\* A pointer move-constructed from a copy that was never written through (a source
\* whose flag is not owner) is owner, and shares its block with the pointer the copy
\* was made from.
C12_Witness ==
    \E p \in Inst :
        /\ alive[p] /\ origin[p].kind = "move" /\ IsOwner(p)
        /\ LET s == origin[p].src
           IN /\ origin[s].kind = "copy" /\ invoked[s] = 0 /\ ~IsOwner(s)
              /\ alive[origin[s].src] /\ m_payload[p] = m_payload[origin[s].src]
              /\ read(p) = origin[origin[s].src].val

\* C13: the step that copy-constructs p from s leaves p holding the block s holds,
\* that block's use count one higher, p's flag not owner, and the handle, the flag and
\* the value of s as they were, whether s's flag is owner or not.
C13_CopyConstructFrame ==
    [][\A p, s \in Inst :
          (Constructed(p) /\ origin'[p].kind = "copy" /\ origin'[p].src = s) =>
              /\ m_payload'[p] = m_payload[s]
              /\ heap'[m_payload[s]].use = heap[m_payload[s]].use + 1
              /\ ~IsOwner(p)'
              /\ variant = AtomicFlag => m_ownership_status'[p] = NotOwner
              /\ m_payload'[s] = m_payload[s]
              /\ m_owned'[s] = m_owned[s]
              /\ m_ownership_status'[s] = m_ownership_status[s]
              /\ m_ownership_mutex'[s] = m_ownership_mutex[s]
              /\ read(s)' = read(s)]_vars

\* A copy of a copy, made while the first copy's flag was not owner: three pointers
\* share one block, and only the resource-constructed one is owner.
C13_Witness ==
    \E p \in Inst :
        /\ alive[p] /\ origin[p].kind = "copy" /\ ~IsOwner(p)
        /\ LET s == origin[p].src
           IN /\ alive[s] /\ origin[s].kind = "copy" /\ ~IsOwner(s)
              /\ m_payload[p] = m_payload[s] /\ heap[m_payload[p]].use = 3
              /\ IsOwner(origin[s].src)

\* C14: the step that move-constructs p from s leaves p holding the block s held, s
\* holding no block, and the block's use count as it was.
C14_MoveTransfersHandle ==
    [][\A p, s \in Inst :
          (Constructed(p) /\ origin'[p].kind = "move" /\ origin'[p].src = s) =>
              /\ m_payload'[p] = m_payload[s]
              /\ m_payload'[s] = NULL
              /\ heap'[m_payload[s]].use = heap[m_payload[s]].use]_vars

\* ------------------------------------------------ a routine that may throw
\* Threads between their successful exchange on the atomic flag f and their store of
\* Owner.
Leaders(f) == {t \in Threads : tgt[t] = f /\ pc[t] \in {"closure", "store"}}

\* The atomic flag f is AcquiringOwnership and no thread is there to store Owner.
Abandoned(f) == m_ownership_status[f] = AcquiringOwnership /\ Leaders(f) = {}

\* C15: atomic flag: the step in which the leader's routine throws leaves the flag
\* AcquiringOwnership with no leader; from then on every step leaves it so, and no
\* call on the flag, waiting already or made afterwards, is ever past
\* acquire_ownership_once.
C15_AtomicCloneFailure ==
    [][variant = AtomicFlag =>
          \A f \in Inst :
              /\ \A t \in Threads :
                    (tgt[t] = f /\ pc[t] = "closure" /\ pc'[t] = "thrown") => Abandoned(f)'
              /\ Abandoned(f) =>
                    /\ Abandoned(f)'
                    /\ \A t \in Threads : tgt'[t] = f => pc'[t] \notin {"ret", "done"}]_vars

\* The leader's routine threw; the thread that was waiting and the failed leader, which
\* called again, are both in the wait loop of a flag nobody will mark Owner.
C15_Witness ==
    /\ variant = AtomicFlag
    /\ \E f \in Inst : Abandoned(f) /\ \A t \in Threads : tgt[t] = f /\ pc[t] = "spin"

\* ------------------------------------------------------------ set_ownership
\* C17: one thread issuing set_ownership and acquire_ownership_once calls on flags
\* constructed owned or not.  In every variant: set_ownership(b) returns with the flag
\* owned exactly if b; acquire_ownership_once enters the routine exactly when the flag
\* is not owned and returns with the flag owned; and every call returns.  The three
\* variants then run the routine on the same calls and end in the same state.
C17_OneContract ==
    /\ [][\A t \in Threads, f \in Inst : tgt[t] = f =>
              /\ (op[t] = "set_ownership" /\ pc[t] # "ret" /\ pc'[t] = "ret") =>
                    IsOwner(f)' = owned[t]
              /\ (op[t] = "acquire" /\ pc[t] # "ret" /\ pc'[t] = "ret") => IsOwner(f)'
              /\ (pc[t] # "closure" /\ pc'[t] = "closure") => ~IsOwner(f)
              /\ (pc[t] \in {"cas", "test"} /\ pc'[t] \notin {"cas", "test", "closure"}) =>
                    IsOwner(f)]_vars
    /\ \A t \in Threads : (pc[t] # "idle") ~> (pc[t] = "done")

\* C18: set_ownership(owned) called while nothing else runs on the flag: once it has
\* returned the flag is owned exactly if owned was true (the atomic flag holds Owner or
\* NotOwner accordingly), whatever the flag held before and whether or not the weak
\* exchange failed spuriously.
C18_AuthoritativeOverwrite ==
    \A t \in Threads : (op[t] = "set_ownership" /\ pc[t] \in {"ret", "done"}) =>
        /\ IsOwner(tgt[t]) = owned[t]
        /\ variant = AtomicFlag =>
              m_ownership_status[tgt[t]] = to_ownership_status(owned[t])

\* C19: atomic flag, no acquisition in flight: every set_ownership call that has
\* started returns, whatever state is requested and whatever state the flag is in.
C19_SetOwnershipTerminates ==
    \A t \in Threads :
        (variant = AtomicFlag /\ op[t] = "set_ownership" /\ pc[t] = "so_load")
            ~> (pc[t] = "ret")

\* C20: mutex and atomic flags, set_ownership and acquire_ownership_once called
\* concurrently: no step changes the state of a flag while a thread is inside the
\* acquisition routine of that flag; the exchange of set_ownership changes the atomic
\* state only from a state other than AcquiringOwnership; m_owned is assigned by
\* set_ownership only with the mutex held and nobody inside the routine.
C20_SetOwnershipSerializes ==
    [][variant # UnsafeFlag =>
          \A f \in Inst :
              /\ InClosure(f) # {} =>
                    /\ m_ownership_status'[f] = m_ownership_status[f]
                    /\ m_owned'[f] = m_owned[f]
              /\ \A t \in Threads : tgt[t] = f =>
                    /\ (AtomicSetCAS(t) /\ m_ownership_status'[f] # m_ownership_status[f]) =>
                          m_ownership_status[f] # AcquiringOwnership /\ InClosure(f) = {}
                    /\ MutexSetAssign(t) =>
                          m_ownership_mutex[f] = t /\ InClosure(f) = {}]_vars

\* A set_ownership call is held back while another thread is inside the acquisition
\* routine of the same flag: in the wait loop of the atomic flag, having loaded
\* AcquiringOwnership, or at the lock of the mutex flag.
C20_Witness ==
    \E t, u \in Threads, f \in Inst :
        /\ tgt[t] = f /\ tgt[u] = f /\ pc[u] = "closure"
        /\ op[t] = "set_ownership"
        /\ \/ variant = AtomicFlag /\ pc[t] = "so_wait"
                 /\ current_ownership[t] = AcquiringOwnership
           \/ variant = MutexFlag /\ pc[t] = "so_lock" /\ m_ownership_mutex[f] = u

\* C21: atomic flag, acquire_ownership_once and set_ownership called concurrently.
\* Every change of the state is one of: NotOwner to AcquiringOwnership, by the
\* exchange of a call that then enters the routine; AcquiringOwnership to Owner, by the
\* store of a thread that was in the routine; or a change between NotOwner and Owner
\* made by the exchange of set_ownership.  So acquire_ownership_once never leaves
\* Owner, and nothing takes the state from AcquiringOwnership back to NotOwner.
C21_AtomicStateMachine ==
    [][variant = AtomicFlag =>
          \A f \in Inst : m_ownership_status'[f] # m_ownership_status[f] =>
              \/ /\ m_ownership_status[f] = NotOwner
                 /\ m_ownership_status'[f] = AcquiringOwnership
                 /\ \E t \in Threads : /\ tgt[t] = f /\ op[t] = "acquire"
                                       /\ pc[t] = "cas" /\ pc'[t] = "closure"
              \/ /\ m_ownership_status[f] = AcquiringOwnership
                 /\ m_ownership_status'[f] = Owner
                 /\ \E t \in Threads : /\ tgt[t] = f /\ op[t] = "acquire"
                                       /\ pc[t] = "store" /\ pc'[t] = "ret"
              \/ /\ m_ownership_status[f] # AcquiringOwnership
                 /\ m_ownership_status'[f] # AcquiringOwnership
                 /\ \E t \in Threads : /\ tgt[t] = f /\ op[t] = "set_ownership"
                                       /\ AtomicSetCAS(t)]_vars

\* A flag constructed owned is AcquiringOwnership and its leader is about to store
\* Owner: set_ownership took it out of Owner, an exchange to AcquiringOwnership.
C21_Witness ==
    /\ variant = AtomicFlag
    /\ \E f \in Inst, t \in Threads :
          /\ origin[f].owned /\ m_ownership_status[f] = AcquiringOwnership
          /\ tgt[t] = f /\ pc[t] = "store"

\* C22: a pointer whose flag is Owner keeps a flag that is Owner in every later state
\* of its life, whichever threads read it or write through it and whether it is the
\* source of a copy-construction or of a move-construction.
C22_OwnerIsStable ==
    [][\A p \in Inst : (alive[p] /\ alive'[p] /\ IsOwner(p)) => IsOwner(p)']_vars

\* An Owner pointer has been copied from, has been read by one thread and written
\* through by another, and is Owner still.
C22_Witness ==
    \E p \in Usable : \E t, u \in Threads :
        /\ IsOwner(p) /\ origin[p].kind = "resource"
        /\ \E q \in Inst : alive[q] /\ origin[q].kind = "copy" /\ origin[q].src = p
        /\ tgt[t] = p /\ op[t] = "read" /\ pc[t] = "done"
        /\ tgt[u] = p /\ op[u] = "write" /\ pc[u] = "done"

\* C23: in every reachable state, a live pointer whose flag is Owner is the only
\* live pointer that references its block.
C23_OwnerMeansPrivate ==
    \A p, q \in Inst :
        (alive[p] /\ alive[q] /\ p # q /\ IsOwner(p)) => m_payload[q] # m_payload[p]

\* C26: on a mutex flag or an atomic flag, whatever the interleaving of
\* acquire_ownership_once and set_ownership calls, at most one thread at a time is
\* inside the acquisition routine.
C26_OneThreadInRoutine ==
    variant # UnsafeFlag => \A f \in Inst : Cardinality(InClosure(f)) <= 1

\* A flag constructed owned has been reset, a thread is inside the routine, and
\* another thread is inside set_ownership on the same flag.
C26_Witness ==
    /\ variant # UnsafeFlag
    /\ \E f \in Inst, t, u \in Threads :
          /\ origin[f].owned /\ t \in InClosure(f)
          /\ tgt[u] = f /\ op[u] = "set_ownership"
          /\ pc[u] \in {"so_wait", "so_cas", "so_lock"}

\* C27: mutex flag, the routine throws.  The unwinding step leaves the mutex free and
\* the flag not owned; only a thread that was inside the routine leaves its call by
\* the exception; the mutex is never held by a thread that is not inside a call on the
\* flag, so a caller that finds it free takes it, and a caller that tests the flag
\* while it is not owned enters the routine.
C27_MutexCloneFailure ==
    [][variant = MutexFlag =>
          \A f \in Inst, t \in Threads : tgt[t] = f =>
              /\ (pc[t] = "unwind" /\ pc'[t] = "thrown") =>
                    m_ownership_mutex'[f] = NoThread /\ ~m_owned'[f]
              /\ (pc[t] \notin {"unwind", "thrown"} /\ pc'[t] \in {"unwind", "thrown"}) =>
                    pc[t] = "closure"
              /\ m_ownership_mutex'[f] = t =>
                    pc'[t] \in {"test", "closure", "setowned", "unlock", "unwind"}
              /\ (pc[t] = "lock" /\ m_ownership_mutex[f] = NoThread) => ENABLED MutexLock(t)
              /\ (pc[t] = "test" /\ pc'[t] # "test" /\ ~m_owned[f]) =>
                    pc'[t] = "closure"]_vars

\* The routine threw in one thread, which has left its call by the exception; another
\* thread, which called afterwards or was waiting for the mutex, is inside the routine.
C27_Witness ==
    /\ variant = MutexFlag
    /\ \E f \in Inst, t, u \in Threads :
          /\ tgt[t] = f /\ pc[t] = "thrown"
          /\ tgt[u] = f /\ pc[u] = "closure" /\ m_ownership_mutex[f] = u

\* A caller that cannot go on: in the wait loop of the atomic flag while the flag is
\* not Owner, or at the lock of the mutex flag while another thread holds it.
Waits(t) ==
    \/ variant = AtomicFlag /\ pc[t] = "spin" /\ m_ownership_status[tgt[t]] # Owner
    \/ variant = MutexFlag /\ pc[t] = "lock" /\ m_ownership_mutex[tgt[t]] # NoThread

\* An acquisition is in progress on f: a leader is about to run the routine, is inside
\* it, or has run it and has not yet stored Owner or released the lock.
InProgress(f) ==
    \/ variant = AtomicFlag /\ Leaders(f) # {}
    \/ /\ variant = MutexFlag
       /\ \E u \in Threads :
             /\ m_ownership_mutex[f] = u /\ tgt[u] = f
             /\ \/ pc[u] = "test" /\ ~m_owned[f]
                \/ pc[u] \in {"closure", "setowned", "unlock"}

\* A leader never waits: the routine is entered straight from the exchange, never from
\* the wait loop, and a mutex that has been waited for is released with the flag owned,
\* which it then stays.
LeaderNeverWaits ==
    [][\A f \in Inst, t \in Threads : tgt[t] = f =>
          /\ (variant = AtomicFlag /\ pc[t] # "closure" /\ pc'[t] = "closure") =>
                pc[t] = "cas"
          /\ (variant = MutexFlag /\ pc[t] = "unlock" /\ pc'[t] # "unlock") => m_owned'[f]
          /\ IsOwner(f) => IsOwner(f)']_vars

\* C24 as stated: one flag, mutex or atomic, no set_ownership call, a routine that
\* terminates, weak fairness of every thread.  Every call of acquire_ownership_once
\* returns; a leader never waits; a caller waits only while an acquisition is in
\* progress.
C24_LivenessWithoutResets ==
    /\ \A t \in Threads :
          (variant # UnsafeFlag /\ pc[t] \notin {"idle", "done"}) ~> (pc[t] = "done")
    /\ LeaderNeverWaits
    /\ [](\A t \in Threads : Waits(t) => InProgress(tgt[t]))

\* C24, amended.  Atomic flag: every call returns, and a caller waits only while an
\* acquisition is in progress.  Mutex flag: a caller waits while any other call holds
\* the mutex, be it only to test a flag that is owned already; the holder of the mutex
\* always returns and the mutex, when wanted, is always taken again, so some caller
\* always goes on.  In both: a leader never waits.
C24_LivenessAmended ==
    /\ \A t \in Threads :
          (variant = AtomicFlag /\ pc[t] \notin {"idle", "done"}) ~> (pc[t] = "done")
    /\ \A t \in Threads :
          (variant = MutexFlag /\ pc[t] \in {"test", "closure", "setowned", "unlock"})
             ~> (pc[t] = "done")
    /\ (variant = MutexFlag /\ \E t \in Threads : pc[t] = "lock")
          ~> (\E u \in Threads : pc[u] = "test")
    /\ LeaderNeverWaits
    /\ [](\A t \in Threads : Waits(t) =>
             \/ InProgress(tgt[t])
             \/ /\ variant = MutexFlag
                /\ \E u \in Threads : /\ m_ownership_mutex[tgt[t]] = u /\ tgt[u] = tgt[t]
                                      /\ pc[u] = "test")

\* A thread waits at the mutex of a flag that is owned, held by a caller that is only
\* testing the flag.
C24_Witness ==
    /\ variant = MutexFlag
    /\ \E t, u \in Threads :
          /\ Waits(t) /\ m_owned[tgt[t]]
          /\ tgt[u] = tgt[t] /\ m_ownership_mutex[tgt[t]] = u /\ pc[u] = "test"

\* C25: atomic flag, weak fairness of every thread.  A follower that is in the wait
\* loop when the flag holds Owner leaves the loop, whatever set_ownership calls follow,
\* unless a new acquire_ownership_once call is made on the flag in the meantime.
C25_FollowerReleased ==
    \A t \in Threads :
        (variant = AtomicFlag /\ pc[t] = "spin" /\ m_ownership_status[tgt[t]] = Owner)
           ~> \/ pc[t] # "spin"
              \/ \E u \in Threads \ {t} : op[u] = "acquire" /\ pc[u] = "cas"

\* C28: read() can be called on a pointer in every state, whatever its flag holds and
\* whatever other threads are doing to it; the call is over in one step, yields the
\* value of the block the pointer references in the state it is made in, and leaves
\* every flag, handle, block value and reference count as it was.
C28_ReadIsPure ==
    [][\A t \in Threads, p \in Usable :
          /\ pc[t] = "idle" => ENABLED Read(t, p)
          /\ (pc[t] = "idle" /\ op'[t] = "read" /\ tgt'[t] = p) =>
                /\ pc'[t] = "done"
                /\ result'[t] = heap[m_payload[p]].val
                /\ UNCHANGED <<flagVars, m_payload, heap, objVars, invoked>>]_vars

\* A thread has read a pointer on which another thread is in the middle of a clone:
\* the new block is allocated and the handle is not yet assigned.
C28_Witness ==
    \E p \in Usable, t, u \in Threads :
        /\ tgt[t] = p /\ op[t] = "read" /\ pc[t] = "done"
        /\ tgt[u] = p /\ op[u] = "write" /\ pc[u] = "clone_assign"
        /\ result[t] = read(p)

\* C29: a step of a write call on a pointer, the steps of the acquire_ownership_once
\* it makes included, leaves the flag and the handle of every other pointer as they
\* were, whether or not they reference the same block.
C29_FlagsPerInstance ==
    [][\A t \in Threads :
          (pc'[t] # pc[t] /\ op'[t] = "write") =>
              \A q \in Inst \ {tgt'[t]} :
                  /\ m_payload'[q] = m_payload[q]
                  /\ m_owned'[q] = m_owned[q]
                  /\ m_ownership_mutex'[q] = m_ownership_mutex[q]
                  /\ m_ownership_status'[q] = m_ownership_status[q]]_vars

\* A write through a copy has cloned and returned; two other pointers still share the
\* block the copy left, one of them a copy that is still not Owner.
C29_Witness ==
    \E p, q, r \in Usable, t \in Threads :
        /\ tgt[t] = p /\ op[t] = "write" /\ pc[t] = "done" /\ invoked[p] = 1
        /\ q # p /\ r # p /\ q # r
        /\ m_payload[q] = m_payload[r] /\ m_payload[q] # m_payload[p]
        /\ IsOwner(p) /\ IsOwner(q) /\ ~IsOwner(r)

\* C30: whether a write clones is decided by the flag of the pointer and by nothing
\* else: a write call that finds the flag not Owner enters the cloning routine, one
\* that finds it Owner does not, whatever the use count of the block; the routine
\* gives the pointer a block it did not hold, and the block it held loses one holder
\* and is freed when the pointer was its last.
C30_FlagAloneDecides ==
    [][\A t \in Threads : op[t] = "write" =>
          LET p == tgt[t]
              old == m_payload[p]
          IN /\ (pc[t] \in {"cas", "test"} /\ pc'[t] # pc[t]) =>
                   (pc'[t] = "closure") = ~IsOwner(p)
             /\ (pc[t] = "clone_assign" /\ pc'[t] # pc[t]) =>
                   /\ m_payload'[p] # old /\ heap'[m_payload'[p]].use = 1
                   /\ heap'[old].use = heap[old].use - 1
                   /\ heap[old].use = 1 => heap'[old].val = Freed]_vars

\* A copy is the last pointer alive, the only holder of the block it was given, and
\* its first write is about to replace that block by the clone just allocated.
C30_Witness ==
    \E t \in Threads, p \in Usable :
        /\ tgt[t] = p /\ op[t] = "write" /\ pc[t] = "clone_assign"
        /\ origin[p].kind = "copy" /\ invoked[p] = 1
        /\ \A q \in Inst \ {p} : ~alive[q]
        /\ heap[m_payload[p]].use = 1 /\ fresh[t] # m_payload[p]

\* The live pointers whose handle designates block b, and the threads holding b as the
\* result of make_shared that the cloning routine has not yet assigned.
Holders(b) == {p \in Inst : alive[p] /\ m_payload[p] = b}
Cloning(b) == {t \in Threads : fresh[t] = b}

\* C31 as stated: in every reachable state every live block is referenced by a live
\* pointer, and there are no more live blocks than live pointers.
C31_BlockAccounting ==
    /\ \A b \in LiveBlocks : Holders(b) # {}
    /\ Cardinality(LiveBlocks) <= Cardinality({p \in Inst : alive[p]})

\* C31, amended: the use count of a block is the number of live pointers that
\* reference it, plus one while it is the new block of a clone whose assignment to
\* m_payload is still to come; a block is freed exactly when that number is zero.  So in
\* every state where no write is inside its clone every live block is referenced by a
\* live pointer and the live blocks are no more than the live pointers; inside a
\* clone there is one block more.
C31_BlockAccountingAmended ==
    /\ \A b \in DOMAIN heap :
          /\ heap[b].use = Cardinality(Holders(b)) + Cardinality(Cloning(b))
          /\ (heap[b].use = 0) = (heap[b].val = Freed)
    /\ Cardinality(LiveBlocks) <=
          Cardinality({p \in Inst : alive[p]})
             + Cardinality({t \in Threads : fresh[t] # NULL})
    /\ (\A t \in Threads : fresh[t] = NULL) => C31_BlockAccounting

\* A write through a copy has cloned and returned while another pointer still holds
\* the old block, and a block that lost its last pointer has been freed.
C31_Witness ==
    \E p, q \in Usable, t \in Threads, b \in DOMAIN heap :
        /\ tgt[t] = p /\ op[t] = "write" /\ pc[t] = "done" /\ invoked[p] = 1
        /\ q # p /\ m_payload[q] # m_payload[p] /\ m_payload[q] = m_payload[origin[p].src]
        /\ heap[b].use = 0 /\ heap[b].val = Freed

\* What a client can see of the program: the pointers it has made and how, the block
\* each one designates, the blocks and their values, the values read, and how many
\* times each pointer has cloned.
observable == <<objVars, m_payload, heap, result, invoked>>

\* C32: one client thread, either class, any flag variant.  Whether a write clones is
\* the same function of what the client has done before in both classes: it clones
\* exactly when the pointer was copy-constructed and has not cloned yet.  Everything
\* the client can see changes only in the steps the two classes have in common (the
\* constructors, read, the two halves of the clone, the assignment of write), and in
\* between calls the flag, whichever it is, says Owner exactly when no clone is due.
\* Hence the same calls give the same blocks and the same values read in both.
C32_SameObservations ==
    [][\A t \in {MainThread} :
          LET p == tgt[t]
          IN /\ (op[t] = "write" /\ pc[t] \in {"test", "cas", "call_once"}
                                 /\ pc'[t] # pc[t]) =>
                   (pc'[t] = "closure") = (origin[p].kind = "copy" /\ invoked[p] = 0)
             /\ observable' # observable =>
                   \/ \E v \in Values : ConstructFromResource(t, v)
                   \/ \E src \in Inst : CopyConstruct(t, src) \/ MoveConstruct(t, src)
                   \/ \E q \in Inst : Read(t, q)
                   \/ CloneAlloc(t) \/ CloneAssign(t) \/ WriteAssign(t) \/ Return(t)
             /\ \A q \in Usable :
                   Quiet(q)' => IsOwner(q)' = ~(origin'[q].kind = "copy" /\ invoked'[q] = 0)
             /\ (op'[t] = "read" /\ pc[t] = "idle") => result'[t] = heap[m_payload[tgt'[t]]].val
             /\ (op[t] = "write" /\ pc[t] = "ret" /\ pc'[t] = "done") =>
                   heap'[m_payload'[p]].val = val[t]]_vars

\* The once_flag class: a copy has cloned on its first write, a pointer constructed
\* from a resource was written through without a clone, and the copy has been read.
C32_Witness ==
    /\ variant = OnceFlag
    /\ \E p, q \in Usable, t \in Threads :
          /\ origin[p].kind = "copy" /\ invoked[p] = 1 /\ m_ownership_flag[p] = OnceDone
          /\ origin[q].kind = "resource" /\ invoked[q] = 0 /\ read(q) # origin[q].val
          /\ tgt[t] = p /\ op[t] = "read" /\ pc[t] = "done" /\ result[t] # read(q)

\* C33: atomic flag, acquire_ownership_once and set_ownership called concurrently, a
\* routine that returns.  The flag holds AcquiringOwnership exactly when one thread is
\* past its successful exchange and before the end of its store of Owner, there is
\* never more than one such thread, and the thread about to store Owner finds
\* AcquiringOwnership.
C33_LeaderInvariant ==
    variant = AtomicFlag =>
        \A f \in Inst :
            /\ Cardinality(Leaders(f)) <= 1
            /\ (m_ownership_status[f] = AcquiringOwnership) = (Cardinality(Leaders(f)) = 1)
            /\ \A t \in Threads :
                  (tgt[t] = f /\ pc[t] = "store") => m_ownership_status[f] = AcquiringOwnership

\* The leader is about to store Owner while another thread, inside set_ownership, is
\* about to attempt its exchange with a value it loaded before the acquisition began.
C33_Witness ==
    /\ variant = AtomicFlag
    /\ \E f \in Inst, t, u \in Threads :
          /\ tgt[t] = f /\ pc[t] = "store" /\ m_ownership_status[f] = AcquiringOwnership
          /\ tgt[u] = f /\ op[u] = "set_ownership" /\ pc[u] = "so_cas"
          /\ current_ownership[u] # AcquiringOwnership

====
